---- MODULE Spec2Model ----
(***************************************************************************)
(* githubbeard: the GithubBeard chat handler                               *)
(* (src/python/githubbeard/__init__.py) and the get_args_as_str_or_ask     *)
(* decorator (also src/python/githubbeard/decorators.py).                  *)
(*                                                                         *)
(* One handler instance serves one chat; handlers of different chats are   *)
(* coroutines interleaved at their awaits.  An action below is the code    *)
(* between two awaits of one coroutine.                                    *)
(*                                                                         *)
(* A python string is modelled as the sequence of its space-separated      *)
(* words, the empty string being << >>.  A chat message that was sent is   *)
(* the pair << template, value >> of the format string and the string put  *)
(* into it.  An optional value (None or x) is << >> or << x >>.            *)
(***************************************************************************)
EXTENDS Integers, Sequences, FiniteSets, TLC

\* ---------------------------------------------------------------- bounds
MaxRows == 2        \* rows the default_repo table may hold
MaxPulls == 2       \* items in one upstream listing

\* ---------------------------------------------------------- the universe
Chats == {"A", "B"}

\* What can follow the command word in a message, and what a reply can say.
ArgStrings == { << >>, <<"octo/a">>, <<"octo">> }

\* The GitHub side, as the client library shows it.
RepoShortName == [ w \in {"octo/a"} |-> "a" ]
KnownUsers == {"octo"}
\* An upstream listing (pull requests of a repo, repos of a user, search
\* results): items are numbered; the listings tried are, for each length,
\* the ascending and the descending one.
Listings ==
    UNION { { [i \in 1..n |-> i], [i \in 1..n |-> n + 1 - i] } : n \in 0..MaxPulls }

None == << >>
Some(x) == << x >>

Commands == { "search_repos", "get_default_repo", "set_default_repo",
              "get_repo", "get_pending_pulls", "get_current_user_repos" }

\* __commands__: the word that selects each handler.
CommandWord(c) ==
    CASE c = "search_repos"           -> "/searchrepos"
      [] c = "get_default_repo"       -> "/getdefaultrepo"
      [] c = "set_default_repo"       -> "/setdefaultrepo"
      [] c = "get_repo"               -> "/getrepo"
      [] c = "get_pending_pulls"      -> "/getpr"
      [] c = "get_current_user_repos" -> "/currentusersrepos"

\* The prompt each wrapped command was decorated with.
PromptOf(c) ==
    CASE c = "search_repos"     -> "What would you like to search github for?"
      [] c = "set_default_repo" -> "What would you like the default repo to be?"
      [] c = "get_repo"         -> "Which repo would you like to get?"
      [] OTHER                  -> ""

Wrapped(c) == c \in {"search_repos", "set_default_repo", "get_repo"}

\* The text onerror was given for the command, "" for the bare @onerror.
OnErrorText(c) ==
    IF c \in {"get_repo", "get_pending_pulls"} THEN "Failed to get repo info."
    ELSE ""

SearchLimit == 30

VARIABLES
    table,      \* the default_repo table: a sequence of rows, oldest first
    pc,         \* where each chat's coroutine is suspended
    cmd,        \* the command the chat is running
    msg,        \* the text of the dispatched message: the command word, then the rest
    args,       \* the argument string handed to the wrapped handler
    entry,      \* local `entry`: None or a row (find_one), None or a key (insert)
    sent,       \* what the command has sent to the chat so far, in order
    handles,    \* table handles the chat's handler holds open
    err,        \* "" or the exception that left the handler
    caught,     \* "" or the exception the handler caught itself
    waits,      \* listener.wait() calls of the command
    fcalls,     \* arguments the wrapped handler was invoked with, in order
    resp,       \* None or the text of the message listener.wait() returned
    repo,       \* None or the full name of the resolved repo
    pull_requests, \* local `pull_requests`: the listing repo.get_pulls() gave
    pulls,      \* the part of it the loop has not reached yet
    pr,         \* local `pr`: None or the last pull request of the loop
    written,    \* ghost: per chat, the repos of the rows it has inserted
    lastSet     \* ghost: per chat, None or the argument of the last completed set

vars == << table, pc, cmd, msg, args, entry, sent, handles, err, caught, waits,
           fcalls, resp, repo, pull_requests, pulls, pr, written, lastSet >>

\* Tables the program can have left behind before chat A's first command.
EarlierTables == { << >> } \cup { << [chat_id |-> "B", repo |-> a] >> : a \in ArgStrings \ { << >> } }

Init ==
    /\ table \in EarlierTables
    /\ pc = [c \in Chats |-> "idle"]
    /\ cmd = [c \in Chats |-> ""]
    /\ msg = [c \in Chats |-> << >>]
    /\ args = [c \in Chats |-> << >>]
    /\ entry = [c \in Chats |-> None]
    /\ sent = [c \in Chats |-> << >>]
    /\ handles = [c \in Chats |-> 0]
    /\ err = [c \in Chats |-> ""]
    /\ caught = [c \in Chats |-> ""]
    /\ waits = [c \in Chats |-> 0]
    /\ fcalls = [c \in Chats |-> << >>]
    /\ resp = [c \in Chats |-> None]
    /\ repo = [c \in Chats |-> None]
    /\ pull_requests = [c \in Chats |-> << >>]
    /\ pulls = [c \in Chats |-> << >>]
    /\ pr = [c \in Chats |-> None]
    /\ written = [c \in Chats |-> IF c = "B" /\ table # << >> THEN << table[1].repo >> ELSE << >>]
    /\ lastSet = [c \in Chats |-> None]

\* ------------------------------------------------------------- helpers

\* get_args(msg, return_string=True): the text after the command word.
GetArgsStr(m) == IF m = << >> THEN << >> ELSE Tail(m)

\* get_args(msg): the list of the words after the command word.
GetArgsList(m) == IF m = << >> THEN << >> ELSE Tail(m)

\* python truthiness of a string, a list or an optional value
Truthy(s) == s # << >>

\* a message of the chat: text.format(value)
Msg(template, value) == << template, value >>

\* sender.sendMessage(...) / sendChatAction(...) by chat c
Send(c, template, value) ==
    sent' = [sent EXCEPT ![c] = Append(@, Msg(template, value))]

\* An exception leaves the handler: the onerror wrapper reports it to the
\* chat, and the command is over.
Raise(c, exc) ==
    /\ err' = [err EXCEPT ![c] = exc]
    /\ Send(c, "onerror", << OnErrorText(cmd[c]) >>)
    /\ pc' = [pc EXCEPT ![c] = "done"]

\* `with self.default_repo_table as table:` entered by chat c
Opened(h, c) == [h EXCEPT ![c] = @ + 1]

\* ... and left, by the end of the block or by an exception
Released(h, c) == [h EXCEPT ![c] = @ - 1]

\* table.find_one(chat_id=c): the rows the call may return; no row: None.
RowsOf(t, c) == { i \in 1..Len(t) : t[i].chat_id = c }

FindOne(t, c) ==
    IF RowsOf(t, c) = {} THEN { None }
    ELSE { Some(t[i]) : i \in RowsOf(t, c) }

\* table.insert(row): the table afterwards.
Insert(t, row) == Append(t, row)

\* github.get_repo(full_name): does the name resolve
RepoExists(name) == Len(name) = 1 /\ name[1] \in DOMAIN RepoShortName

\* ------------------------------------------------------------- dispatch

WritersAhead ==
    Cardinality({ c \in Chats : /\ cmd[c] = "set_default_repo"
                                /\ pc[c] \in {"g", "prompted", "waiting", "f", "body"} })

\* A command message, for one of the commands K, arrives for a handler that
\* runs no command: the locals of the new call are fresh.
DispatchOf(c, K) ==
    /\ pc[c] \in {"idle", "done"}
    /\ \E k \in K, m \in ArgStrings :
        /\ k = "set_default_repo" => Len(table) + WritersAhead < MaxRows
        /\ cmd' = [cmd EXCEPT ![c] = k]
        /\ msg' = [msg EXCEPT ![c] = << CommandWord(k) >> \o m]
        /\ pc' = [pc EXCEPT ![c] = IF Wrapped(k) THEN "g" ELSE "body"]
    /\ err' = [err EXCEPT ![c] = ""]
    /\ caught' = [caught EXCEPT ![c] = ""]
    /\ sent' = [sent EXCEPT ![c] = << >>]
    /\ args' = [args EXCEPT ![c] = << >>]
    /\ entry' = [entry EXCEPT ![c] = None]
    /\ waits' = [waits EXCEPT ![c] = 0]
    /\ fcalls' = [fcalls EXCEPT ![c] = << >>]
    /\ resp' = [resp EXCEPT ![c] = None]
    /\ repo' = [repo EXCEPT ![c] = None]
    /\ pull_requests' = [pull_requests EXCEPT ![c] = << >>]
    /\ pulls' = [pulls EXCEPT ![c] = << >>]
    /\ pr' = [pr EXCEPT ![c] = None]
    /\ UNCHANGED << table, handles, written, lastSet >>

\* ------------------------------------------- get_args_as_str_or_ask: g

\* fault variant of NeedsPrompt: g asks whether or not an argument came
NeedsPromptAlways(a) == TRUE

\* `if not args:` the command came without an argument
NeedsPrompt(a) == ~Truthy(a)

\* g up to its first await: with an argument it goes on to f, without one
\* it sends the prompt.
GStart(c) ==
    /\ pc[c] = "g"
    /\ IF NeedsPrompt(GetArgsStr(msg[c]))
       THEN /\ Send(c, PromptOf(cmd[c]), << >>)
            /\ pc' = [pc EXCEPT ![c] = "prompted"]
            /\ UNCHANGED args
       ELSE /\ args' = [args EXCEPT ![c] = GetArgsStr(msg[c])]
            /\ pc' = [pc EXCEPT ![c] = "f"]
            /\ UNCHANGED sent
    /\ UNCHANGED << table, cmd, msg, entry, handles, err, caught, waits, fcalls,
                    resp, repo, pull_requests, pulls, pr, written, lastSet >>

\* resp = await beard.listener.wait(): the coroutine suspends on the listener
GWait(c) ==
    /\ pc[c] = "prompted"
    /\ waits' = [waits EXCEPT ![c] = @ + 1]
    /\ pc' = [pc EXCEPT ![c] = "waiting"]
    /\ UNCHANGED << table, cmd, msg, args, entry, sent, handles, err, caught,
                    fcalls, resp, repo, pull_requests, pulls, pr, written, lastSet >>

\* The next message of the chat arrives, with a text that may be empty:
\* args = resp['text'], and g goes on to f.
GDeliver(c) ==
    /\ pc[c] = "waiting"
    /\ \E t \in ArgStrings :
        /\ resp' = [resp EXCEPT ![c] = Some(t)]
        /\ args' = [args EXCEPT ![c] = t]
    /\ pc' = [pc EXCEPT ![c] = "f"]
    /\ UNCHANGED << table, cmd, msg, entry, sent, handles, err, caught, waits,
                    fcalls, repo, pull_requests, pulls, pr, written, lastSet >>

\* The listener is closed or fails: wait() raises inside g, f is not called.
GListenerFails(c) ==
    /\ pc[c] = "waiting"
    /\ Raise(c, "ListenerError")
    /\ UNCHANGED << table, cmd, msg, args, entry, handles, caught, waits, fcalls,
                    resp, repo, pull_requests, pulls, pr, written, lastSet >>

\* fault variant of HandlerArg: the reply is dropped, f gets what came inline
HandlerArgInline(c) == GetArgsStr(msg[c])

\* what g hands to f as `args`
HandlerArg(c) == args[c]

\* await f(beard, msg, args)
GCallF(c) ==
    /\ pc[c] = "f"
    /\ fcalls' = [fcalls EXCEPT ![c] = Append(@, HandlerArg(c))]
    /\ args' = [args EXCEPT ![c] = HandlerArg(c)]
    /\ pc' = [pc EXCEPT ![c] = "body"]
    /\ UNCHANGED << table, cmd, msg, entry, sent, handles, err, caught, waits,
                    resp, repo, pull_requests, pulls, pr, written, lastSet >>

\* ------------------------------------------------------- search_repos

SearchRepos(c) ==
    /\ pc[c] = "body" /\ cmd[c] = "search_repos"
    /\ Send(c, "sendChatAction", << "typing" >>)
    /\ pc' = [pc EXCEPT ![c] = "sr_typing"]
    /\ UNCHANGED << table, cmd, msg, args, entry, handles, err, caught, waits,
                    fcalls, resp, repo, pull_requests, pulls, pr, written, lastSet >>

\* search_results[:30], handed to send_paginated_message
SearchReposResults(c) ==
    /\ pc[c] = "sr_typing"
    /\ \E found \in Listings :
        Send(c, "send_paginated_message",
             SubSeq(found, 1, IF Len(found) < SearchLimit THEN Len(found) ELSE SearchLimit))
    /\ pc' = [pc EXCEPT ![c] = "done"]
    /\ UNCHANGED << table, cmd, msg, args, entry, handles, err, caught, waits,
                    fcalls, resp, repo, pull_requests, pulls, pr, written, lastSet >>

\* --------------------------------------------------- get_default_repo

\* with table: find_one, then the await of sendMessage inside the block
GetDefaultRepo(c) ==
    /\ pc[c] = "body" /\ cmd[c] = "get_default_repo"
    /\ handles' = Opened(handles, c)
    /\ \E e \in FindOne(table, c) :
        /\ entry' = [entry EXCEPT ![c] = e]
        /\ IF Truthy(e)
           THEN Send(c, "Default repo for this chat: {}", e[1].repo)
           ELSE Send(c, "No repo set.", << >>)
    /\ pc' = [pc EXCEPT ![c] = "gdr_sent"]
    /\ UNCHANGED << table, cmd, msg, args, err, caught, waits, fcalls, resp, repo,
                    pull_requests, pulls, pr, written, lastSet >>

\* the send is done; the with block ends
GetDefaultRepoExit(c) ==
    /\ pc[c] = "gdr_sent"
    /\ handles' = Released(handles, c)
    /\ pc' = [pc EXCEPT ![c] = "done"]
    /\ UNCHANGED << table, cmd, msg, args, entry, sent, err, caught, waits, fcalls,
                    resp, repo, pull_requests, pulls, pr, written, lastSet >>

\* --------------------------------------------------- set_default_repo

\* What table.insert can answer: the new row's key, the row being stored,
\* or nothing; the exception that follows then leaves the with block, which
\* keeps nothing of the failed write.
InsertOutcomes == { "confirmed", "lost" }

\* fault variant of NewRow: the row is keyed by one fixed chat
NewRowOfOneChat(c, a) == [chat_id |-> "A", repo |-> a]

\* the row set_default_repo writes
NewRow(c, a) == [chat_id |-> c, repo |-> a]

\* fault variant of Confirmed: the answer of insert is not looked at
ConfirmedAlways(e) == TRUE

\* `if entry:` the write came back confirmed
Confirmed(e) == Truthy(e)

\* with table: insert, then the confirmation or the exception
SetDefaultRepo(c) ==
    /\ pc[c] = "body" /\ cmd[c] = "set_default_repo"
    /\ Len(table) < MaxRows
    /\ \E o \in InsertOutcomes :
        /\ table' = IF o = "lost" THEN table ELSE Insert(table, NewRow(c, args[c]))
        /\ written' = IF o = "lost" THEN written
                      ELSE [written EXCEPT ![c] = Append(@, args[c])]
        /\ entry' = [entry EXCEPT ![c] =
                        IF o = "confirmed" THEN Some(Len(table) + 1) ELSE None]
        /\ IF Confirmed(entry'[c])
           THEN /\ Send(c, "Repo set to: {}", args[c])
                /\ handles' = Opened(handles, c)
                /\ pc' = [pc EXCEPT ![c] = "sdr_sent"]
                /\ UNCHANGED err
           ELSE /\ Raise(c, "Exception")
                /\ handles' = Released(Opened(handles, c), c)
    /\ UNCHANGED << cmd, msg, args, caught, waits, fcalls, resp, repo,
                    pull_requests, pulls, pr, lastSet >>

\* the send is done; the with block ends and the command has completed
SetDefaultRepoExit(c) ==
    /\ pc[c] = "sdr_sent"
    /\ handles' = Released(handles, c)
    /\ lastSet' = [lastSet EXCEPT ![c] = Some(args[c])]
    /\ pc' = [pc EXCEPT ![c] = "done"]
    /\ UNCHANGED << table, cmd, msg, args, entry, sent, err, caught, waits, fcalls,
                    resp, repo, pull_requests, pulls, pr, written >>

\* ----------------------------------------------------------- get_repo

GetRepo(c) ==
    /\ pc[c] = "body" /\ cmd[c] = "get_repo"
    /\ IF RepoExists(args[c])
       THEN /\ repo' = [repo EXCEPT ![c] = Some(args[c])]
            /\ Send(c, "Repo name: {}", << RepoShortName[args[c][1]] >>)
            /\ pc' = [pc EXCEPT ![c] = "gr_name"]
            /\ UNCHANGED err
       ELSE /\ Raise(c, "UnknownObjectException")
            /\ UNCHANGED repo
    /\ UNCHANGED << table, cmd, msg, args, entry, handles, caught, waits, fcalls,
                    resp, pull_requests, pulls, pr, written, lastSet >>

GetRepoStr(c) ==
    /\ pc[c] = "gr_name"
    /\ Send(c, "Repo str: {}", repo[c][1])
    /\ pc' = [pc EXCEPT ![c] = "done"]
    /\ UNCHANGED << table, cmd, msg, args, entry, handles, err, caught, waits,
                    fcalls, resp, repo, pull_requests, pulls, pr, written, lastSet >>

\* -------------------------------------------------- get_pending_pulls

\* The name get_pending_pulls looks up: args[0], or the stored entry's
\* repo; with neither it is None['repo'], which is no name at all.
PullsTarget(a, e) ==
    IF Truthy(a) THEN Some(<< a[1] >>)
    ELSE IF Truthy(e) THEN Some(e[1].repo)
    ELSE None

\* up to the start of the loop: the repo is resolved and its pulls listed
GetPendingPulls(c) ==
    /\ pc[c] = "body" /\ cmd[c] = "get_pending_pulls"
    /\ handles' = IF Truthy(GetArgsList(msg[c])) THEN handles
                  ELSE Released(Opened(handles, c), c)
    /\ \E e \in IF Truthy(GetArgsList(msg[c])) THEN { None } ELSE FindOne(table, c) :
        /\ entry' = [entry EXCEPT ![c] = e]
        /\ LET target == PullsTarget(GetArgsList(msg[c]), e) IN
           IF target = None
           THEN /\ Raise(c, "TypeError: 'NoneType' object is not subscriptable")
                /\ UNCHANGED << repo, pull_requests, pulls >>
           ELSE IF ~RepoExists(target[1])
           THEN /\ Raise(c, "UnknownObjectException")
                /\ UNCHANGED << repo, pull_requests, pulls >>
           ELSE /\ repo' = [repo EXCEPT ![c] = target]
                /\ \E l \in Listings :
                    /\ pull_requests' = [pull_requests EXCEPT ![c] = l]
                    /\ pulls' = [pulls EXCEPT ![c] = l]
                /\ pc' = [pc EXCEPT ![c] = "gpp_loop"]
                /\ UNCHANGED << err, sent >>
    /\ pr' = [pr EXCEPT ![c] = None]
    /\ UNCHANGED << table, cmd, msg, args, caught, waits, fcalls, resp, written,
                    lastSet >>

\* fault variant of NoPullsFound: the closing message is sent after any loop
NoPullsFoundAlways(p) == TRUE

\* `if pr is None:` the loop body never ran
NoPullsFound(p) == p = None

\* one turn of `for pr in pull_requests`, or what follows the loop
GetPendingPullsLoop(c) ==
    /\ pc[c] = "gpp_loop"
    /\ IF pulls[c] # << >>
       THEN /\ pr' = [pr EXCEPT ![c] = Some(Head(pulls[c]))]
            /\ pulls' = [pulls EXCEPT ![c] = Tail(@)]
            /\ Send(c, "make_pull_msg_text_informal", << Head(pulls[c]) >>)
            /\ UNCHANGED pc
       ELSE /\ IF NoPullsFound(pr[c])
               THEN Send(c, "No pull requests found for {}.",
                         << RepoShortName[repo[c][1][1]] >>)
               ELSE UNCHANGED sent
            /\ pc' = [pc EXCEPT ![c] = "done"]
            /\ UNCHANGED << pr, pulls >>
    /\ UNCHANGED << table, cmd, msg, args, entry, handles, err, caught, waits,
                    fcalls, resp, repo, pull_requests, written, lastSet >>

\* --------------------------------------------- get_current_user_repos

\* github.get_user(name) / github.get_user(): TRUE when the client knows
\* the user; the authenticated user is known or not.
GetUserAnswers(a) ==
    IF Len(a) >= 1 THEN { a[1] \in KnownUsers } ELSE { TRUE, FALSE }

\* user.name or user.login
UserLabel(a) == IF Len(a) >= 1 THEN a[1] ELSE "me"

\* fault variant of AfterUserNotFound: no return, the handler goes on
AfterUserNotFoundGoOn == "ur_header"

\* where the handler is after user_not_found(): `return`
AfterUserNotFound == "done"

GetCurrentUserRepos(c) ==
    /\ pc[c] = "body" /\ cmd[c] = "get_current_user_repos"
    /\ \E known \in GetUserAnswers(GetArgsList(msg[c])) :
        IF known
        THEN /\ Send(c, "Github repos for {}:", << UserLabel(GetArgsList(msg[c])) >>)
             /\ pc' = [pc EXCEPT ![c] = "ur_header"]
             /\ UNCHANGED caught
        ELSE /\ caught' = [caught EXCEPT ![c] = "UnknownObjectException"]
             /\ Send(c, "User not found.", << >>)
             /\ pc' = [pc EXCEPT ![c] = AfterUserNotFound]
    /\ UNCHANGED << table, cmd, msg, args, entry, handles, err, waits, fcalls,
                    resp, repo, pull_requests, pulls, pr, written, lastSet >>

GetCurrentUserReposTyping(c) ==
    /\ pc[c] = "ur_header"
    /\ Send(c, "sendChatAction", << "typing" >>)
    /\ pc' = [pc EXCEPT ![c] = "ur_typing"]
    /\ UNCHANGED << table, cmd, msg, args, entry, handles, err, caught, waits,
                    fcalls, resp, repo, pull_requests, pulls, pr, written, lastSet >>

\* one line per repo of user.get_repos(), in one message
GetCurrentUserReposList(c) ==
    /\ pc[c] = "ur_typing"
    /\ \E l \in Listings : Send(c, "- <a href={}>{}</a>", l)
    /\ pc' = [pc EXCEPT ![c] = "done"]
    /\ UNCHANGED << table, cmd, msg, args, entry, handles, err, caught, waits,
                    fcalls, resp, repo, pull_requests, pulls, pr, written, lastSet >>

\* ------------------------------------------------------ specifications

Dispatch(c) == DispatchOf(c, Commands)

\* The commands that read or write the default_repo table.
StoreCommands == { "get_default_repo", "set_default_repo", "get_pending_pulls" }

DispatchStore(c) == DispatchOf(c, StoreCommands)

\* Spec: the handler of chat A runs commands one after another; the table
\* may already hold a row that chat B wrote.
Next ==
    \E c \in {"A"} :
        \/ Dispatch(c)
        \/ GStart(c)
        \/ GWait(c)
        \/ GDeliver(c)
        \/ GListenerFails(c)
        \/ GCallF(c)
        \/ SearchRepos(c)
        \/ SearchReposResults(c)
        \/ GetDefaultRepo(c)
        \/ GetDefaultRepoExit(c)
        \/ SetDefaultRepo(c)
        \/ SetDefaultRepoExit(c)
        \/ GetRepo(c)
        \/ GetRepoStr(c)
        \/ GetPendingPulls(c)
        \/ GetPendingPullsLoop(c)
        \/ GetCurrentUserRepos(c)
        \/ GetCurrentUserReposTyping(c)
        \/ GetCurrentUserReposList(c)

Spec == Init /\ [][Next]_vars

\* SpecChats: the handlers of both chats, interleaved at their awaits,
\* running the commands that use the table.
NextChats ==
    \E c \in Chats :
        \/ DispatchStore(c)
        \/ GStart(c)
        \/ GWait(c)
        \/ GDeliver(c)
        \/ GListenerFails(c)
        \/ GCallF(c)
        \/ GetDefaultRepo(c)
        \/ GetDefaultRepoExit(c)
        \/ SetDefaultRepo(c)
        \/ SetDefaultRepoExit(c)
        \/ GetPendingPulls(c)
        \/ GetPendingPullsLoop(c)

InitChats == Init /\ table = << >>

SpecChats == InitChats /\ [][NextChats]_vars
\* -------------------------------------------------------------- claims

\* the prompt messages among what chat c's command has sent
Prompts(c) == { i \in 1..Len(sent[c]) : sent[c][i][1] = PromptOf(cmd[c]) }

\* the messages of chat c's command that were made with the template
Made(c, template) == { i \in 1..Len(sent[c]) : sent[c][i][1] = template }

\* the wrapped command of chat c came without / with an inline argument
NoInline(c) == Wrapped(cmd[c]) /\ GetArgsStr(msg[c]) = << >>
Inline(c) == Wrapped(cmd[c]) /\ GetArgsStr(msg[c]) # << >>

\* get_default_repo of chat c has sent its answer
GetAnswered(c) == cmd[c] = "get_default_repo" /\ pc[c] \in {"gdr_sent", "done"}

\* C1: get_default_repo in a chat where no set_default_repo has completed
\* sends exactly "No repo set."; after a completed set_default_repo(r) it
\* sends the message reporting r, the argument of the last completed set.
C1_GetReportsWhatWasSet ==
    \A c \in Chats :
        GetAnswered(c) =>
            sent[c] = IF lastSet[c] = None
                      THEN << Msg("No repo set.", << >>) >>
                      ELSE << Msg("Default repo for this chat: {}", lastSet[c][1]) >>

\* C2: the table holds at most one entry per chat id, and a get_default_repo
\* after several sets reports the latest one.
C2_OneEntryLatestValue ==
    \A c \in Chats :
        /\ Cardinality(RowsOf(table, c)) <= 1
        /\ (GetAnswered(c) /\ Truthy(entry[c]) /\ lastSet[c] # None)
               => entry[c][1].repo = lastSet[c][1]

\* C3: a wrapped command without an inline argument sends exactly one
\* prompt, then waits on the listener, and the handler is invoked exactly
\* once, after the message arrived, with that message's text.
C3_PromptThenReply ==
    \A c \in Chats :
        (NoInline(c) /\ pc[c] # "g") =>
            /\ Cardinality(Prompts(c)) = 1
            /\ sent[c][1] = Msg(PromptOf(cmd[c]), << >>)
            /\ Len(fcalls[c]) <= 1
            /\ pc[c] = "prompted" => waits[c] = 0 /\ fcalls[c] = << >>
            /\ pc[c] = "waiting" => waits[c] = 1 /\ resp[c] = None /\ fcalls[c] = << >>
            /\ fcalls[c] # << >> =>
                   waits[c] = 1 /\ resp[c] # None /\ fcalls[c] = << resp[c][1] >>
            /\ (resp[c] # None /\ pc[c] # "f") => fcalls[c] = << resp[c][1] >>

C3_Witness ==
    /\ NoInline("A") /\ cmd["A"] = "get_repo" /\ pc["A"] = "done"
    /\ resp["A"] = Some(<< "octo/a" >>)
    /\ fcalls["A"] = << << "octo/a" >> >>
    /\ Len(sent["A"]) = 3

\* C4: a wrapped command with a non-empty inline argument sends no prompt,
\* never waits on the listener, and the handler gets the inline argument.
C4_InlineNoPrompt ==
    \A c \in Chats :
        Inline(c) =>
            /\ Prompts(c) = {}
            /\ waits[c] = 0 /\ resp[c] = None
            /\ pc[c] \notin {"prompted", "waiting"}
            /\ pc[c] # "g" => args[c] = GetArgsStr(msg[c])
            /\ pc[c] \notin {"g", "f"} => fcalls[c] = << GetArgsStr(msg[c]) >>

C4_Witness ==
    /\ Inline("A") /\ cmd["A"] = "set_default_repo" /\ pc["A"] = "done"
    /\ msg["A"] = << "/setdefaultrepo", "octo/a" >>
    /\ fcalls["A"] = << << "octo/a" >> >>
    /\ sent["A"] = << Msg("Repo set to: {}", << "octo/a" >>) >>

\* the messages get_pending_pulls sends for the first n items of a listing
PullMsgs(l, n) == [i \in 1..n |-> Msg("make_pull_msg_text_informal", << l[i] >>)]

\* C5: get_pending_pulls on a repo that resolves: with no pull request it
\* sends one message naming the repo and no pull-request message; with
\* N >= 1 it sends the N pull-request messages in the order of the listing
\* and not the "No pull requests found" message.
C5_PullMessages ==
    \A c \in Chats :
        (cmd[c] = "get_pending_pulls" /\ repo[c] # None) =>
            LET l == pull_requests[c]
                n == Len(l) - Len(pulls[c])
            IN  /\ pc[c] \in {"gpp_loop", "done"}
                /\ pc[c] = "gpp_loop" => sent[c] = PullMsgs(l, n)
                /\ pc[c] = "done" =>
                       sent[c] = IF l = << >>
                                 THEN << Msg("No pull requests found for {}.",
                                             << RepoShortName[repo[c][1][1]] >>) >>
                                 ELSE PullMsgs(l, Len(l))

C5_Witness ==
    /\ cmd["A"] = "get_pending_pulls" /\ pc["A"] = "done"
    /\ repo["A"] = Some(<< "octo/a" >>)
    /\ pull_requests["A"] = << 2, 1 >>
    /\ Len(sent["A"]) = 2

\* C6: get_pending_pulls without an inline argument in a chat without a
\* stored default repo detects the missing entry and reports that: it does
\* not subscript None, looks up no repo and sends no pull-request message.
C6_MissingEntryDetected ==
    \A c \in Chats :
        ( /\ cmd[c] = "get_pending_pulls" /\ pc[c] = "done"
          /\ GetArgsList(msg[c]) = << >> /\ entry[c] = None ) =>
            /\ err[c] # "TypeError: 'NoneType' object is not subscriptable"
            /\ err[c] # ""
            /\ repo[c] = None
            /\ Made(c, "make_pull_msg_text_informal") = {}

\* C7: get_current_user_repos, when the client reports the user unknown,
\* sends the one message "User not found." and nothing else, and no error
\* leaves the handler.
C7_UserNotFoundOnly ==
    \A c \in Chats :
        /\ (cmd[c] = "get_current_user_repos" /\ caught[c] = "UnknownObjectException") =>
               /\ pc[c] = "done"
               /\ err[c] = ""
               /\ sent[c] = << Msg("User not found.", << >>) >>
        /\ (cmd[c] = "get_current_user_repos" /\ Made(c, "User not found.") # {}) =>
               caught[c] = "UnknownObjectException"

C7_Witness ==
    /\ cmd["A"] = "get_current_user_repos" /\ pc["A"] = "done"
    /\ msg["A"] = << "/currentusersrepos", "octo/a" >>
    /\ caught["A"] = "UnknownObjectException"
    /\ sent["A"] = << Msg("User not found.", << >>) >>

\* the handler body of set_default_repo has done its insert
SetWritten(c) ==
    cmd[c] = "set_default_repo" /\ pc[c] \in {"sdr_sent", "done"} /\ fcalls[c] # << >>

\* C8: in set_default_repo an unconfirmed write ends the handler in an
\* error and sends no "Repo set to" confirmation; the confirmation is sent
\* only after a confirmed write.
C8_UnconfirmedWriteIsAnError ==
    \A c \in Chats :
        /\ (SetWritten(c) /\ entry[c] = None) =>
               /\ pc[c] = "done"
               /\ err[c] = "Exception"
               /\ Made(c, "Repo set to: {}") = {}
        /\ (cmd[c] = "set_default_repo" /\ Made(c, "Repo set to: {}") # {}) =>
               /\ entry[c] # None
               /\ err[c] = ""
               /\ written[c] # << >>
               /\ written[c][Len(written[c])] = args[c]

C8_Witness ==
    /\ SetWritten("A") /\ entry["A"] = None
    /\ err["A"] = "Exception"
    /\ sent["A"] = << Msg("onerror", << "" >>) >>

\* C9: the handler of a wrapped command is never run with an empty
\* argument, whatever the listener does after the prompt; a listener
\* failure leaves the handler uninvoked.
C9_NoEmptyArgument ==
    \A c \in Chats :
        /\ \A i \in 1..Len(fcalls[c]) : fcalls[c][i] # << >>
        /\ err[c] = "ListenerError" => fcalls[c] = << >>

\* the repos of the rows of chat c, oldest first
RECURSIVE ReposOf(_, _)
ReposOf(t, c) ==
    IF t = << >> THEN << >>
    ELSE IF Head(t).chat_id = c THEN << Head(t).repo >> \o ReposOf(Tail(t), c)
    ELSE ReposOf(Tail(t), c)

\* the table has a default repo stored for chat c, read by get_default_repo
\* or by the fallback of get_pending_pulls
ReadsEntry(c) ==
    cmd[c] \in {"get_default_repo", "get_pending_pulls"} /\ Truthy(entry[c])

\* C10: with the commands of two chats interleaved at their awaits, what
\* one chat reads is what that chat itself has set, whatever the other chat
\* sets meanwhile; and a command that is over, with an error or without,
\* holds no table handle.
C10_ChatsIsolatedHandlesReleased ==
    \A c \in Chats :
        /\ ReposOf(table, c) = written[c]
        /\ ReadsEntry(c) =>
               /\ entry[c][1].chat_id = c
               /\ \E i \in 1..Len(written[c]) : written[c][i] = entry[c][1].repo
        /\ (GetAnswered(c) /\ entry[c] = None) => written[c] = << >>
        /\ handles[c] \in {0, 1}
        /\ pc[c] \in {"idle", "done"} => handles[c] = 0
        /\ handles[c] = 1 => pc[c] \in {"gdr_sent", "sdr_sent"}

C10_Witness ==
    /\ pc["B"] = "gdr_sent" /\ handles["B"] = 1
    /\ entry["B"] = Some(NewRow("B", << "octo" >>))
    /\ pc["A"] = "sdr_sent" /\ handles["A"] = 1
    /\ args["A"] = << "octo/a" >>
    /\ Len(table) = 2
====
